---- MODULE Spec2Model ----
(***************************************************************************)
(* Model of crates/bellpepper/src/gadgets/sha3.rs: the SHA3-256 gadget     *)
(* entry point sha3, the pad10*1 padding, the Sha3State matrix and the     *)
(* ROUND_CONSTANTS table.                                                  *)
(*                                                                         *)
(* A Boolean wire is modelled by the name of its enum variant: "Is" and    *)
(* "Not" for allocated bits, "Constant(true)" and "Constant(false)" for    *)
(* the constants that Boolean::constant builds.  A u64 of ROUND_CONSTANTS  *)
(* is written as its four 16-bit groups of hex digits, most significant    *)
(* first, exactly as the digits stand in the source literal.               *)
(***************************************************************************)
EXTENDS Integers, Sequences, FiniteSets

VARIABLES pc, input, sha3_state, padded, count, i, block, result

vars == <<pc, input, sha3_state, padded, count, i, block, result>>

(* ------------------------------ bounds -------------------------------- *)

\* Every caller input of 0..MaxLen bits is tried: two full periods of the
\* rate and a little more.
MaxLen == 2200

\* Long inputs: the MaxBack + 1 lengths that end at 8 * BIT_RATE - 1.  A padded
\* length of 8 * BIT_RATE = 17 * 512 bits is the shortest one that is a whole
\* number of 512-bit chunks.
MaxBack == 3

\* Input contents: pattern p in 0..MaxPat shifts the cycle of wire kinds.
MaxPat == 1

(* ----------------------------- constants ------------------------------ *)

MD_SIZE == 256

BIT_RATE == 1088

\* Mutant: the table with one digit mistyped (entry 2 ends in b, not a).
ROUND_CONSTANTS_typo ==
    << <<\H0000, \H0000, \H0000, \H0001>>, <<\H0000, \H0000, \H0000, \H8082>>, <<\H8000, \H0000, \H0000, \H808b>>,
       <<\H8000, \H0000, \H8000, \H8000>>, <<\H0000, \H0000, \H0000, \H808b>>, <<\H0000, \H0000, \H8000, \H0001>>,
       <<\H8000, \H0000, \H8000, \H8081>>, <<\H8000, \H0000, \H0000, \H8009>>, <<\H0000, \H0000, \H0000, \H008a>>,
       <<\H0000, \H0000, \H0000, \H0088>>, <<\H0000, \H0000, \H8000, \H8009>>, <<\H0000, \H0000, \H8000, \H000a>>,
       <<\H0000, \H0000, \H8000, \H808b>>, <<\H8000, \H0000, \H0000, \H008b>>, <<\H8000, \H0000, \H0000, \H8089>>,
       <<\H8000, \H0000, \H0000, \H8003>>, <<\H8000, \H0000, \H0000, \H8002>>, <<\H8000, \H0000, \H0000, \H0080>>,
       <<\H0000, \H0000, \H0000, \H800a>>, <<\H8000, \H0000, \H8000, \H000a>>, <<\H8000, \H0000, \H8000, \H8081>>,
       <<\H8000, \H0000, \H0000, \H8080>>, <<\H0000, \H0000, \H8000, \H0001>>, <<\H8000, \H0000, \H8000, \H8008>> >>

ROUND_CONSTANTS ==
    << <<\H0000, \H0000, \H0000, \H0001>>, <<\H0000, \H0000, \H0000, \H8082>>, <<\H8000, \H0000, \H0000, \H808a>>,
       <<\H8000, \H0000, \H8000, \H8000>>, <<\H0000, \H0000, \H0000, \H808b>>, <<\H0000, \H0000, \H8000, \H0001>>,
       <<\H8000, \H0000, \H8000, \H8081>>, <<\H8000, \H0000, \H0000, \H8009>>, <<\H0000, \H0000, \H0000, \H008a>>,
       <<\H0000, \H0000, \H0000, \H0088>>, <<\H0000, \H0000, \H8000, \H8009>>, <<\H0000, \H0000, \H8000, \H000a>>,
       <<\H0000, \H0000, \H8000, \H808b>>, <<\H8000, \H0000, \H0000, \H008b>>, <<\H8000, \H0000, \H0000, \H8089>>,
       <<\H8000, \H0000, \H0000, \H8003>>, <<\H8000, \H0000, \H0000, \H8002>>, <<\H8000, \H0000, \H0000, \H0080>>,
       <<\H0000, \H0000, \H0000, \H800a>>, <<\H8000, \H0000, \H8000, \H000a>>, <<\H8000, \H0000, \H8000, \H8081>>,
       <<\H8000, \H0000, \H0000, \H8080>>, <<\H0000, \H0000, \H8000, \H0001>>, <<\H8000, \H0000, \H8000, \H8008>> >>

\* Bit k (0 = least significant) of a u64 written as four 16-bit groups.
U64Bit(w, k) == (w[4 - (k \div 16)] \div (2 ^ (k % 16))) % 2

(* ------------------------------ Boolean ------------------------------- *)

\* The variants of gadgets::boolean::Boolean a caller's slice can hold.
Boolean == <<"Is", "Not", "Constant(true)", "Constant(false)">>

(* ----------------------------- Sha3State ------------------------------ *)

\* Sha3State::new(): matrix: [[0; 5]; 5]
Sha3State_new == [matrix |-> [x \in 0..4 |-> [y \in 0..4 |-> 0]]]

\* Mutant: a default state whose lanes are not cleared.
Sha3State_default_ones == [matrix |-> [x \in 0..4 |-> [y \in 0..4 |-> 1]]]

\* #[derive(Default)]: every field by Default, u64::default() = 0 in every lane
Sha3State_default == [matrix |-> [x \in 0..4 |-> [y \in 0..4 |-> 0]]]

(* ------------------------------ pad10_1 ------------------------------- *)

\* Mutant: the "- 1" that accounts for the closing bit is forgotten.
zero_bits_to_append_no_minus_one(len) == (BIT_RATE - (len % BIT_RATE)) % BIT_RATE

\* Mutant: the fill is computed for the 512-bit rate that sha3 asserts.
zero_bits_to_append_rate512(len) == (512 - 1 - (len % 512)) % 512

\* let zero_bits_to_append = (BIT_RATE - 1 - input.len() % BIT_RATE) % BIT_RATE;
\* len is input.len() at that line, that is after the first push.
zero_bits_to_append(len) == (BIT_RATE - 1 - (len % BIT_RATE)) % BIT_RATE

\* Mutant: the fill is computed from the length before the first push.
pad10_1_len_before_push(inp) ==
    LET zeros  == zero_bits_to_append(Len(inp))
        pushed == Append(inp, "Constant(true)")
        filled == pushed \o [k \in 1..zeros |-> "Constant(false)"]
    IN  Append(filled, "Constant(true)")

\* Mutant: the fill loop runs over 0..=zero_bits_to_append.
pad10_1_inclusive_range(inp) ==
    LET pushed == Append(inp, "Constant(true)")
        zeros  == zero_bits_to_append(Len(pushed))
        filled == pushed \o [k \in 1..(zeros + 1) |-> "Constant(false)"]
    IN  Append(filled, "Constant(true)")

pad10_1(inp) ==
    LET pushed == Append(inp, "Constant(true)")
        zeros  == zero_bits_to_append(Len(pushed))
        filled == pushed \o [k \in 1..zeros |-> "Constant(false)"]
    IN  Append(filled, "Constant(true)")

(* ------------------------------- chunks ------------------------------- *)

Min(a, b) == IF a < b THEN a ELSE b

\* slice::chunks(n): consecutive slices of n elements, the last one shorter
\* when n does not divide the length.
chunks_len(s, n) == (Len(s) + n - 1) \div n

chunks_nth(s, n, k) == SubSeq(s, k * n + 1, Min((k + 1) * n, Len(s)))

(* ------------------------------- inputs ------------------------------- *)

InputOf(L, p) == [k \in 1..L |-> Boolean[((k + p) % 4) + 1]]

InputLens == (0..MaxLen) \cup {8 * BIT_RATE - 1 - k : k \in 0..MaxBack}

(* ------------------------------- sha3 --------------------------------- *)

Init ==
    /\ pc = "idle"
    /\ input = <<>>
    /\ sha3_state = <<>>
    /\ padded = <<>>
    /\ count = 0
    /\ i = 0
    /\ block = <<>>
    /\ result = <<>>

\* sha3 entered with a slice: the state is built and the input copied.
Sha3Enter ==
    /\ pc = "idle"
    /\ \E L \in InputLens, p \in 0..MaxPat :
         /\ input' = InputOf(L, p)
         /\ padded' = InputOf(L, p)
    /\ sha3_state' = Sha3State_default
    /\ count' = 0
    /\ i' = 0
    /\ block' = <<>>
    /\ result' = <<>>
    /\ pc' = "pad"

\* pad10_1(&mut padded)
Sha3Pad ==
    /\ pc = "pad"
    /\ padded' = pad10_1(padded)
    /\ pc' = "assert"
    /\ UNCHANGED <<input, sha3_state, count, i, block, result>>

\* assert!(padded.len() % 512 == 0), passing
Sha3AssertOk ==
    /\ pc = "assert"
    /\ Len(padded) % 512 = 0
    /\ pc' = "loop"
    /\ UNCHANGED <<input, sha3_state, padded, count, i, block, result>>

\* assert!(padded.len() % 512 == 0), failing: the call panics
Sha3AssertPanic ==
    /\ pc = "assert"
    /\ Len(padded) % 512 # 0
    /\ pc' = "panic"
    /\ UNCHANGED <<input, sha3_state, padded, count, i, block, result>>

\* for (i, block) in padded.chunks(512).enumerate(): one iteration, whose
\* body holds no statement.
Sha3Absorb ==
    /\ pc = "loop"
    /\ count < chunks_len(padded, 512)
    /\ i' = count
    /\ block' = chunks_nth(padded, 512, count)
    /\ count' = count + 1
    /\ UNCHANGED <<pc, input, sha3_state, padded, result>>

\* The iterator is exhausted and the body of sha3 ends; no digest is built,
\* the value of the block is ().
Sha3Exit ==
    /\ pc = "loop"
    /\ count = chunks_len(padded, 512)
    /\ result' = <<>>
    /\ pc' = "done"
    /\ UNCHANGED <<input, sha3_state, padded, count, i, block>>

\* The call is over (returned or unwound); its locals are dropped.
Sha3Return ==
    /\ pc \in {"done", "panic"}
    /\ pc' = "idle"
    /\ input' = <<>>
    /\ sha3_state' = <<>>
    /\ padded' = <<>>
    /\ count' = 0
    /\ i' = 0
    /\ block' = <<>>
    /\ result' = <<>>

Next ==
    \/ Sha3Enter
    \/ Sha3Pad
    \/ Sha3AssertOk
    \/ Sha3AssertPanic
    \/ Sha3Absorb
    \/ Sha3Exit
    \/ Sha3Return

Spec == Init /\ [][Next]_vars

(* ======================= properties of the code ======================= *)

\* The call has run pad10_1: padded holds the padded copy of input.
Padded == pc \in {"assert", "loop", "done", "panic"}

InLen == Len(input)

\* Number of elements between the two elements pad10_1 pushes around the fill.
FillBits == Len(padded) - InLen - 2

\* padded is input, one constant true, z constant false, one constant true.
PadShape(z) ==
    padded = input \o <<"Constant(true)">>
                   \o [k \in 1..z |-> "Constant(false)"]
                   \o <<"Constant(true)">>

\* C1: pad10_1 keeps the L input elements in place and appends one constant
\* true, z >= 0 constant false and one constant true, z being the least count
\* that makes the length a multiple of 1088; the length is the smallest
\* multiple of 1088 that is >= L + 2.
C1_PadContract ==
    Padded =>
        /\ FillBits >= 0
        /\ FillBits < BIT_RATE
        /\ SubSeq(padded, 1, InLen) = input
        /\ PadShape(FillBits)
        /\ Len(padded) % BIT_RATE = 0
        /\ Len(padded) >= InLen + 2
        /\ Len(padded) - BIT_RATE < InLen + 2

C1_Witness ==
    /\ pc = "assert"
    /\ InLen > BIT_RATE
    /\ FillBits > 0
    /\ input[InLen] = "Constant(true)"

\* C2 (as claimed): every call of sha3 completes and returns exactly MD_SIZE
\* = 256 wires, whatever the input length.
C2_Returns256Wires ==
    /\ pc # "panic"
    /\ pc = "done" => Len(result) = MD_SIZE

\* C3 (as claimed): the padded length always satisfies the condition sha3
\* asserts before the absorb loop, so no call panics on the assertion.
C3_AssertNeverFails ==
    /\ pc = "assert" => Len(padded) % 512 = 0
    /\ pc # "panic"

\* SHA3-256 of the empty byte string, as sixteen 16-bit groups of hex digits.
EmptyDigestHex ==
    <<\Ha7ff, \Hc6f8, \Hbf1e, \Hd766, \H51c1, \H4756, \Ha061, \Hd662,
      \Hf580, \Hff4d, \He43b, \H49fa, \H82d8, \H0a4b, \H80f8, \H434a>>

\* Bit k (0..255) of the digest: bytes in the order of the hex string, the
\* bits of a byte least significant first (FIPS 202, B.1).
EmptyDigestBit(k) ==
    LET byte == k \div 8
        grp  == EmptyDigestHex[(byte \div 2) + 1]
        val  == IF byte % 2 = 0 THEN grp \div 256 ELSE grp % 256
    IN  (val \div (2 ^ (k % 8))) % 2

\* With no input wire, every digest wire is a constant.
EmptyDigest ==
    [k \in 1..MD_SIZE |->
        IF EmptyDigestBit(k - 1) = 1 THEN "Constant(true)" ELSE "Constant(false)"]

\* C4 (as claimed): for the empty input, sha3 returns the 256 bits of
\* a7ffc6f8...f8434a, the SHA3-256 hash of the empty byte string.
C4_EmptyInputDigest ==
    (InLen = 0 /\ pc \in {"done", "panic"}) =>
        (pc = "done" /\ result = EmptyDigest)

\* C5 (as claimed): the number of constant-false fill bits is
\* (1088 - 1 - L % 1088) % 1088, L the length of the caller's input.
C5_FillFromInputLength ==
    Padded => PadShape((BIT_RATE - 1 - (InLen % BIT_RATE)) % BIT_RATE)

\* C5 (amended): the number of constant-false fill bits is
\* (1088 - 1 - (L + 1) % 1088) % 1088: the formula is taken on the length
\* after the first constant-true bit is appended.
C5_FillFromPushedLength ==
    Padded => PadShape((BIT_RATE - 1 - ((InLen + 1) % BIT_RATE)) % BIT_RATE)

C5_Witness ==
    /\ pc = "panic"
    /\ InLen = 0
    /\ FillBits = BIT_RATE - 2

\* C6 (as claimed): an input of exactly 1088 bits gets exactly 2 bits
\* appended, no fill, and a padded length of 1090.
C6_OneBlockAppendsTwo ==
    (Padded /\ InLen = BIT_RATE) =>
        (PadShape(0) /\ Len(padded) = BIT_RATE + 2)

\* C6 (amended): an input of exactly 1088 bits gets 1088 bits appended, the
\* two constant-true bits with 1086 constant-false bits between them, and a
\* padded length of 2176.
C6_OneBlockAppendsBlock ==
    (Padded /\ InLen = BIT_RATE) =>
        (PadShape(BIT_RATE - 2) /\ Len(padded) = 2 * BIT_RATE)

C6_Witness ==
    /\ Padded
    /\ InLen = BIT_RATE
    /\ Len(padded) = 2 * BIT_RATE

\* C7: when L + 2 is a multiple of 1088 (L % 1088 = 1086), no fill bit is
\* appended: the output is the input and two adjacent constant-true bits, of
\* length L + 2.
C7_BoundaryNoFill ==
    (Padded /\ InLen % BIT_RATE = BIT_RATE - 2) =>
        (PadShape(0) /\ Len(padded) = InLen + 2)

C7_Witness ==
    /\ Padded
    /\ InLen = 2 * BIT_RATE - 2
    /\ Len(padded) = 2 * BIT_RATE

\* C8 (as claimed): the absorb loop visits the padded input as consecutive
\* blocks of exactly 1088 bits, block i being bits 1088 i .. 1088 i + 1087,
\* and runs padded length / 1088 times.
C8_AbsorbByRateBlocks ==
    /\ (pc = "loop" /\ count > 0) =>
          /\ Len(block) = BIT_RATE
          /\ block = SubSeq(padded, i * BIT_RATE + 1, (i + 1) * BIT_RATE)
    /\ pc = "done" => count = Len(padded) \div BIT_RATE

ZeroLanes(m) ==
    /\ DOMAIN m = 0..4
    /\ \A x \in 0..4 : DOMAIN m[x] = 0..4 /\ \A y \in 0..4 : m[x][y] = 0

\* C9: every call of sha3 works on a state matrix of 5 x 5 zero lanes, whatever
\* ran before; Sha3State::new() and Sha3State::default() are that same matrix.
C9_FreshZeroState ==
    /\ pc # "idle" => ZeroLanes(sha3_state.matrix)
    /\ ZeroLanes(Sha3State_new.matrix)
    /\ ZeroLanes(Sha3State_default.matrix)
    /\ Sha3State_new = Sha3State_default

C9_Witness ==
    /\ pc = "loop"
    /\ count > 0
    /\ sha3_state = Sha3State_new

\* One step of the 8-bit LFSR of FIPS 202, algorithm 5 (x^8+x^6+x^5+x^4+1):
\* R = 0 || R, then R[0], R[4], R[5], R[6] ^= R[8], then Trunc8.  R[n] of the
\* standard is R[n + 1] here.
LfsrStep(R) ==
    LET f == R[8]
    IN  << f, R[1], R[2], R[3], (R[4] + f) % 2, (R[5] + f) % 2, (R[6] + f) % 2, R[7] >>

\* steps steps of the LFSR from state R (R is a sequence of 8 bits).
RECURSIVE LfsrRun(_, _)
LfsrRun(R, steps) ==
    IF Len(R) = 8 /\ steps = 0 THEN R ELSE LfsrRun(LfsrStep(R), steps - 1)

\* The LFSR state after 0, 64 and 128 steps, and after any t in 0..191.
Lfsr0 == <<1, 0, 0, 0, 0, 0, 0, 0>>

Lfsr64 == LfsrRun(Lfsr0, 64)

Lfsr128 == LfsrRun(Lfsr64, 64)

LfsrAt(t) ==
    IF t < 64 THEN LfsrRun(Lfsr0, t)
    ELSE IF t < 128 THEN LfsrRun(Lfsr64, t - 64)
    ELSE LfsrRun(Lfsr128, t - 128)

\* rc(t) of the standard for t in 0..167 = 6 + 7 * 23 (no reduction mod 255 is
\* needed below 255).
RcBits == [t \in 0..167 |-> LfsrAt(t)[1]]

rc(t) == RcBits[t]

\* RC of round r per the standard: bit 2^j - 1 is rc(j + 7 r), the rest 0.
KeccakRCBit(r, k) ==
    IF \E j \in 0..6 : k = 2 ^ j - 1
    THEN rc((CHOOSE j \in 0..6 : k = 2 ^ j - 1) + 7 * r)
    ELSE 0

\* The table, bit by bit, against the constants of the standard.
RoundConstantsAreKeccak ==
    /\ Len(ROUND_CONSTANTS) = 24
    /\ \A r \in 0..23 :
          /\ Len(ROUND_CONSTANTS[r + 1]) = 4
          /\ \A g \in 1..4 : ROUND_CONSTANTS[r + 1][g] \in 0..65535
          /\ \A k \in 0..63 : U64Bit(ROUND_CONSTANTS[r + 1], k) = KeccakRCBit(r, k)

\* C10: ROUND_CONSTANTS has 24 entries, entry i the Keccak-f[1600] constant of
\* round i: bit 2^j - 1 is rc(j + 7 i) for j in 0..6, every other bit is 0.
\* This is the table every call of sha3 has at hand.
C10_RoundConstants == pc # "idle" => RoundConstantsAreKeccak

C10_Witness ==
    /\ pc = "loop"
    /\ count = 1
    /\ U64Bit(ROUND_CONSTANTS[3], 63) = 1
    /\ rc(6 + 7 * 2) = 1
    /\ U64Bit(ROUND_CONSTANTS[24], 0) = 0
    /\ rc(0 + 7 * 23) = 0

====
